---- MODULE Spec2Model ----
(***************************************************************************)
(* Model of the kernel-duration pipeline: process.py (extraction),         *)
(* unify.py (run aggregation), analyze_statistics.py (statistics),         *)
(* calculate_std_percentage.py (percentage derivation) and                 *)
(* compare_implementations.py (comparison).                                *)
(*                                                                         *)
(* Every script is a batch stage that reads files and writes files, so     *)
(* every stage has its own specification: its Init draws the input files   *)
(* from bounded sets and its actions are the stage's functions.            *)
(***************************************************************************)
EXTENDS Integers, Sequences, FiniteSets, TLC

VARIABLES
    raw_file,        \* process.py: the raw trace handed to transform_profile_file
    transform_ret,   \* process.py: what transform_profile_file returned
    processed_file,  \* process.py: the per-run table it wrote
    raw_dir,         \* process.py: the raw traces transform_directory found, in order
    next_file,       \* process.py: position of transform_directory's loop in them
    processed_dir,   \* process.py: the output file of each of them
    transformed_count, \* process.py: success_count of transform_directory
    files,           \* unify.py: the tree of input_dir, paths and their files
    join_ret,        \* unify.py: what join_files returned
    unified_file,    \* unify.py: the <category>.csv it wrote
    run_dirs,        \* unify.py: the entries of one category directory main walks
    runs_left,       \* unify.py: the entries main has not come to yet
    unified_runs,    \* unify.py: the <category>.csv under each run's output directory
    success_count,   \* unify.py: main's count of successful joins
    unified_dir,     \* analyze_statistics.py: the category analysed and its run files
    result_df,       \* analyze_statistics.py: what analyze_category returned
    statistics_dir,  \* analyze_statistics.py: the statistics file of each category
    unified_root,    \* analyze_statistics.py: the unified directory main walks
    next_category,   \* analyze_statistics.py: position of main's loop in categories
    main_state,      \* analyze_statistics.py: whether main runs, completed or died
    statistics_file, \* calculate_std_percentage.py: the category and its input file
    enhanced_file,   \* calculate_std_percentage.py: the outcome for that category
    data,            \* compare_implementations.py: the three statistics files
    comparison_df,   \* compare_implementations.py: what the comparison returned
    comparison_dir   \* compare_implementations.py: the files main saved

extract_dir_vars == <<raw_dir, next_file, processed_dir, transformed_count>>
extract_vars == <<raw_file, transform_ret, processed_file, extract_dir_vars>>
stats_main_vars == <<unified_root, next_category, main_state>>
stats_vars == <<unified_dir, result_df, statistics_dir, stats_main_vars>>
pct_vars == <<statistics_file, enhanced_file>>
compare_vars == <<data, comparison_df, comparison_dir>>
unify_main_vars == <<run_dirs, runs_left, unified_runs, success_count>>
unify_vars == <<files, join_ret, unified_file, unify_main_vars>>
vars == <<extract_vars, unify_vars, stats_vars, pct_vars, compare_vars>>

\* What every stage but one leaves alone.
not_extract_vars == <<unify_vars, stats_vars, pct_vars, compare_vars>>
not_unify_vars == <<extract_vars, stats_vars, pct_vars, compare_vars>>
not_stats_vars == <<extract_vars, unify_vars, pct_vars, compare_vars>>
not_pct_vars == <<extract_vars, unify_vars, stats_vars, compare_vars>>
not_compare_vars == <<extract_vars, unify_vars, stats_vars, pct_vars>>

(***************************************************************************)
(* Generic helpers                                                         *)
(***************************************************************************)

\* Sequences over S of length 0..n.
SeqsUpTo(S, n) == UNION {[1..k -> S] : k \in 0..n}

SeqRange(s) == {s[i] : i \in 1..Len(s)}

RECURSIVE SeqSum(_)
SeqSum(s) == IF s = <<>> THEN 0 ELSE Head(s) + SeqSum(Tail(s))

RECURSIVE SeqMax(_)
SeqMax(s) == IF Len(s) = 1 THEN s[1]
             ELSE LET m == SeqMax(Tail(s)) IN IF s[1] > m THEN s[1] ELSE m

\* s[:n] of Python: the first n elements, or all of s when it has fewer.
Prefix(s, n) == SubSeq(s, 1, IF n < Len(s) THEN n ELSE Len(s))

\* A nullable number: a pandas cell that is either NaN or a value.
NaN == [null |-> TRUE]
Num(v) == [null |-> FALSE, v |-> v]

\* A file that has not been written.
NoFile == [exists |-> FALSE]

(***************************************************************************)
(* Strings are sequences of characters, so that substring search and       *)
(* lexicographic order are computed and not assumed.                       *)
(***************************************************************************)
TRISC == <<"T", "R", "I", "S", "C">>
TRISC_0 == <<"T", "R", "I", "S", "C", "_", "0">>
TRISC_1 == <<"T", "R", "I", "S", "C", "_", "1">>
BRISC == <<"B", "R", "I", "S", "C">>
NCRISC == <<"N", "C", "R", "I", "S", "C">>
\* A missing string cell (pandas NaN in an object column).
NaNStr == <<"NaN">>

\* Characters in ASCII order, for the lexicographic order of sorted().
Alphabet == <<".", "0", "1", "B", "C", "I", "N", "NaN", "R", "S", "T", "_",
              "g", "l", "o", "s">>
CharRank(c) == CHOOSE i \in 1..Len(Alphabet) : Alphabet[i] = c

RECURSIVE StrLess(_, _)
StrLess(a, b) ==
    IF b = <<>> THEN FALSE
    ELSE IF a = <<>> THEN TRUE
    ELSE IF a[1] = b[1] THEN StrLess(Tail(a), Tail(b))
    ELSE CharRank(a[1]) < CharRank(b[1])

\* pat in s  (Python substring test)
IsSubstring(pat, s) ==
    \E i \in 0..(Len(s) - Len(pat)) :
        \A j \in 1..Len(pat) : s[i + j] = pat[j]

\* Mutant of str_contains: the risc-type filter keeps every row.
str_contains_keeps_all(cell, pat, na) == TRUE

\* Series.str.contains(pat, na=na) for one cell
str_contains(cell, pat, na) ==
    IF cell = NaNStr THEN na ELSE IsSubstring(pat, cell)

categories == <<"baseline", "counter", "profiler">>

\* The stages are separate scripts: while one runs, the others hold these.
ExtractDirIdle ==
    /\ raw_dir = <<>>
    /\ next_file = 0
    /\ processed_dir = <<>>
    /\ transformed_count = 0

ExtractIdle ==
    /\ raw_file = [ncols |-> 0, events |-> <<>>]
    /\ transform_ret = "idle"
    /\ processed_file = NoFile
    /\ ExtractDirIdle

StatsMainIdle ==
    /\ unified_root = <<>>
    /\ next_category = 0
    /\ main_state = "idle"

StatsIdle ==
    /\ unified_dir = [category |-> "idle", runs |-> <<>>]
    /\ result_df = [kind |-> "idle"]
    /\ statistics_dir = [c \in SeqRange(categories) |-> NoFile]
    /\ StatsMainIdle

PctIdle ==
    /\ statistics_file = [category |-> "idle", file |-> NoFile]
    /\ enhanced_file = [kind |-> "idle"]

UnifyMainIdle ==
    /\ run_dirs = <<>>
    /\ runs_left = {}
    /\ unified_runs = <<>>
    /\ success_count = 0

UnifyIdle ==
    /\ files = {}
    /\ join_ret = "idle"
    /\ unified_file = NoFile
    /\ UnifyMainIdle

CompareIdle ==
    /\ data = [c \in SeqRange(categories) |-> NoFile]
    /\ comparison_df = [kind |-> "idle"]
    /\ comparison_dir = [detailed |-> NoFile, summary |-> NoFile]

(***************************************************************************)
(* process.py : EventLogParser and KernelDurationExtractor                 *)
(***************************************************************************)

\* Longest raw trace (data rows) the extraction is checked on.
MaxEvents == 3

expected_columns ==
    <<"pcie", "core_x", "core_y", "risc_type", "timer_id", "time_cycles", "data",
      "run_host_id", "zone_name", "type", "source_line", "source_file", "meta_data">>

\* Column counts a raw file may have: one short, exact, one too many.
RawColumnCounts ==
    {Len(expected_columns) - 1, Len(expected_columns), Len(expected_columns) + 1}

Event(cx, risc, zone, type, t, d) ==
    [pcie |-> 0, core_x |-> cx, core_y |-> 2, risc_type |-> risc,
     time_cycles |-> t, data |-> d, run_host_id |-> 5,
     zone_name |-> zone, type |-> type]

\* The data rows a raw trace is drawn from.  Two TRISC measurement points, a
\* BRISC one and one whose risc_type cell is empty.  Events of the CB zones
\* carry ZONE_START / ZONE_END types and late timestamps too.
EventPool ==
    {Event(1, TRISC_0, "TRISC-KERNEL", "ZONE_START", t, 0) : t \in {1000, 1500}}
    \cup {Event(1, TRISC_0, "TRISC-KERNEL", "ZONE_END", t, 0) : t \in {1000, 1500}}
    \cup {Event(1, TRISC_0, "TRISC-KERNEL", "TS_DATA", 1700, 0)}
    \cup {Event(1, TRISC_0, "CB-COMPUTE-WAIT-FRONT", "ZONE_START", 2000, d) : d \in {0, 3}}
    \cup {Event(1, TRISC_0, "CB-COMPUTE-RESERVE-BACK", "ZONE_END", 2000, 4)}
    \cup {Event(2, TRISC_1, "TRISC-KERNEL", "ZONE_START", 1000, 0),
          Event(2, TRISC_1, "TRISC-KERNEL", "ZONE_END", 1500, 0),
          Event(2, TRISC_1, "TRISC-KERNEL", "TS_DATA", 1700, 0),
          Event(2, TRISC_1, "CB-COMPUTE-WAIT-FRONT", "ZONE_START", 2000, 3)}
    \cup {Event(1, BRISC, "TRISC-KERNEL", "ZONE_START", 1000, 0),
          Event(1, BRISC, "TRISC-KERNEL", "ZONE_END", 2000, 0),
          Event(1, BRISC, "CB-COMPUTE-WAIT-FRONT", "ZONE_START", 2000, 3)}
    \cup {Event(1, NaNStr, "TRISC-KERNEL", "ZONE_START", 1000, 0)}

RawFiles == [ncols : RawColumnCounts, events : SeqsUpTo(EventPool, MaxEvents)]

\* The groupby key of an event (process.py:82).
GroupKey(e) == <<e.pcie, e.core_x, e.core_y, e.risc_type, e.run_host_id>>

\* Tuple order of the groupby keys (groupby sorts its keys).
KeyLess(a, b) ==
    \/ a[1] < b[1]
    \/ a[1] = b[1] /\ a[2] < b[2]
    \/ a[1] = b[1] /\ a[2] = b[2] /\ a[3] < b[3]
    \/ a[1] = b[1] /\ a[2] = b[2] /\ a[3] = b[3] /\ StrLess(a[4], b[4])
    \/ a[1] = b[1] /\ a[2] = b[2] /\ a[3] = b[3] /\ a[4] = b[4] /\ a[5] < b[5]

RECURSIVE SortKeys(_)
SortKeys(S) ==
    IF S = {} THEN <<>>
    ELSE LET m == CHOOSE k \in S : \A o \in S \ {k} : KeyLess(k, o)
         IN <<m>> \o SortKeys(S \ {m})

\* Mutant of calculate_kernel_length: a negative difference is clamped to 0.
calculate_kernel_length_clamped(group) ==
    LET zone_start == SelectSeq(group, LAMBDA e :
                          e.zone_name = "TRISC-KERNEL" /\ e.type = "ZONE_START")
        zone_end == SelectSeq(group, LAMBDA e :
                          e.zone_name = "TRISC-KERNEL" /\ e.type = "ZONE_END")
        d == SeqMax([i \in 1..Len(zone_end) |-> zone_end[i].time_cycles])
             - SeqMax([i \in 1..Len(zone_start) |-> zone_start[i].time_cycles])
    IN IF Len(zone_start) = 0 \/ Len(zone_end) = 0 THEN 0
       ELSE IF Len(zone_start) > 1 \/ Len(zone_end) > 1 THEN 0
       ELSE IF d < 0 THEN 0 ELSE d

\* Mutant of calculate_kernel_length: duplicated markers are paired by their
\* latest timestamps instead of giving 0.
calculate_kernel_length_guessing(group) ==
    LET zone_start == SelectSeq(group, LAMBDA e :
                          e.zone_name = "TRISC-KERNEL" /\ e.type = "ZONE_START")
        zone_end == SelectSeq(group, LAMBDA e :
                          e.zone_name = "TRISC-KERNEL" /\ e.type = "ZONE_END")
    IN IF Len(zone_start) = 0 \/ Len(zone_end) = 0 THEN 0
       ELSE SeqMax([i \in 1..Len(zone_end) |-> zone_end[i].time_cycles])
            - SeqMax([i \in 1..Len(zone_start) |-> zone_start[i].time_cycles])

\* Mutant of calculate_kernel_length: start and end swapped in the difference.
calculate_kernel_length_swapped(group) ==
    LET zone_start == SelectSeq(group, LAMBDA e :
                          e.zone_name = "TRISC-KERNEL" /\ e.type = "ZONE_START")
        zone_end == SelectSeq(group, LAMBDA e :
                          e.zone_name = "TRISC-KERNEL" /\ e.type = "ZONE_END")
    IN IF Len(zone_start) = 0 \/ Len(zone_end) = 0 THEN 0
       ELSE IF Len(zone_start) > 1 \/ Len(zone_end) > 1 THEN 0
       ELSE SeqMax([i \in 1..Len(zone_start) |-> zone_start[i].time_cycles])
            - SeqMax([i \in 1..Len(zone_end) |-> zone_end[i].time_cycles])

calculate_kernel_length(group) ==
    LET zone_start == SelectSeq(group, LAMBDA e :
                          e.zone_name = "TRISC-KERNEL" /\ e.type = "ZONE_START")
        zone_end == SelectSeq(group, LAMBDA e :
                          e.zone_name = "TRISC-KERNEL" /\ e.type = "ZONE_END")
    IN IF Len(zone_start) = 0 \/ Len(zone_end) = 0 THEN 0
       ELSE IF Len(zone_start) > 1 \/ Len(zone_end) > 1 THEN 0
       ELSE SeqMax([i \in 1..Len(zone_end) |-> zone_end[i].time_cycles])
            - SeqMax([i \in 1..Len(zone_start) |-> zone_start[i].time_cycles])

\* Mutant of extract_cb_metrics: a zone without events gives the metric 0.
extract_cb_metrics_zero_filled(df) ==
    LET cb_wait_front == SelectSeq(df, LAMBDA e : e.zone_name = "CB-COMPUTE-WAIT-FRONT")
        cb_reserve_back == SelectSeq(df, LAMBDA e : e.zone_name = "CB-COMPUTE-RESERVE-BACK")
    IN [CB_WAIT_FRONT |-> SeqSum([i \in 1..Len(cb_wait_front) |-> cb_wait_front[i].data]),
        CB_RESERVE_BACK |-> SeqSum([i \in 1..Len(cb_reserve_back) |-> cb_reserve_back[i].data])]

\* The dict of the CB metrics that exist for the group; a key is absent when
\* the group has no event of the zone.
extract_cb_metrics(df) ==
    LET cb_wait_front == SelectSeq(df, LAMBDA e : e.zone_name = "CB-COMPUTE-WAIT-FRONT")
        cb_reserve_back == SelectSeq(df, LAMBDA e : e.zone_name = "CB-COMPUTE-RESERVE-BACK")
        wf == IF cb_wait_front # <<>>
              THEN [c \in {"CB_WAIT_FRONT"} |->
                       SeqSum([i \in 1..Len(cb_wait_front) |-> cb_wait_front[i].data])]
              ELSE [c \in {} |-> 0]
        rb == IF cb_reserve_back # <<>>
              THEN [c \in {"CB_RESERVE_BACK"} |->
                       SeqSum([i \in 1..Len(cb_reserve_back) |-> cb_reserve_back[i].data])]
              ELSE [c \in {} |-> 0]
    IN wf @@ rb

group_contains_trisc_kernel(group) ==
    \E i \in 1..Len(group) : group[i].zone_name = "TRISC-KERNEL"

\* The key order of one row dict built at process.py:93-101.
RowDictKeys(d) ==
    <<"pcie", "core_x", "core_y", "risc_type", "host_id", "KERNEL_LENGTH">>
    \o (IF "CB_WAIT_FRONT" \in DOMAIN d THEN <<"CB_WAIT_FRONT">> ELSE <<>>)
    \o (IF "CB_RESERVE_BACK" \in DOMAIN d THEN <<"CB_RESERVE_BACK">> ELSE <<>>)

\* s followed by the elements of t that s does not hold, in t's order.
RECURSIVE AppendNew(_, _)
AppendNew(s, t) ==
    IF t = <<>> THEN s
    ELSE AppendNew(IF Head(t) \in SeqRange(s) THEN s ELSE Append(s, Head(t)), Tail(t))

\* Columns of pd.DataFrame(list of dicts): the keys in first-seen order.
RECURSIVE DictColumns(_)
DictColumns(dicts) ==
    IF dicts = <<>> THEN <<>>
    ELSE LET n == Len(dicts)
         IN AppendNew(DictColumns(SubSeq(dicts, 1, n - 1)), RowDictKeys(dicts[n]))

OptionalColumns == {"CB_WAIT_FRONT", "CB_RESERVE_BACK"}

\* pd.DataFrame(list of dicts): every row holds every column, NaN where its
\* dict had no such key.  The cells of the optional columns are nullable.
DataFrame(dicts) ==
    LET columns == DictColumns(dicts)
    IN [exists |-> TRUE,
        columns |-> columns,
        rows |-> [i \in 1..Len(dicts) |->
                    [c \in SeqRange(columns) |->
                        IF c \in OptionalColumns
                        THEN (IF c \in DOMAIN dicts[i] THEN Num(dicts[i][c]) ELSE NaN)
                        ELSE dicts[i][c]]]]

\* process.py:77-103, the table built from the renamed frame df.
KernelMetricTable(df) ==
    LET trisc == SelectSeq(df, LAMBDA e : str_contains(e.risc_type, TRISC, FALSE))
        keys == SortKeys({GroupKey(trisc[i]) : i \in 1..Len(trisc)})
        group(k) == SelectSeq(trisc, LAMBDA e : GroupKey(e) = k)
        grouped == SelectSeq(keys, LAMBDA k : group_contains_trisc_kernel(group(k)))
    IN DataFrame([i \in 1..Len(grouped) |->
            LET k == grouped[i]
            IN [pcie |-> k[1], core_x |-> k[2], core_y |-> k[3], risc_type |-> k[4],
                host_id |-> k[5],
                KERNEL_LENGTH |-> calculate_kernel_length(group(k))]
               @@ extract_cb_metrics(group(k))])

\* transform_profile_file(input_file, output_file): a file whose column count
\* is not that of expected_columns is refused (fewer: line 75; more: the
\* assignment of line 72 raises, caught at line 114); no table is written.
transform_profile_file ==
    /\ transform_ret = "pending"
    /\ IF raw_file.ncols >= Len(expected_columns)
          /\ Len(Prefix(expected_columns, raw_file.ncols)) = raw_file.ncols
       THEN /\ processed_file' = KernelMetricTable(raw_file.events)
            /\ transform_ret' = "True"
       ELSE /\ processed_file' = NoFile
            /\ transform_ret' = "False"
    /\ UNCHANGED <<raw_file, extract_dir_vars>>
    /\ UNCHANGED not_extract_vars

InitExtract ==
    /\ raw_file \in RawFiles
    /\ transform_ret = "pending"
    /\ processed_file = NoFile
    /\ ExtractDirIdle
    /\ UnifyIdle /\ StatsIdle /\ PctIdle /\ CompareIdle

NextExtract == transform_profile_file

SpecExtract == InitExtract /\ [][NextExtract]_vars

(***************************************************************************)
(* Properties of the extraction (process.py)                               *)
(***************************************************************************)

\* The raw events, their positions, and the measurement points they name.
RawEvents == raw_file.events
RawKeys == {GroupKey(RawEvents[i]) : i \in 1..Len(RawEvents)}
\* The groups of the groupby: the keys of the rows the TRISC filter keeps.
GroupbyKeys == {k \in RawKeys : IsSubstring(TRISC, k[4])}
EventsOf(k) == SelectSeq(RawEvents, LAMBDA e : GroupKey(e) = k)
KernelIdx(k) == {i \in 1..Len(RawEvents) :
                   GroupKey(RawEvents[i]) = k /\ RawEvents[i].zone_name = "TRISC-KERNEL"}
StartIdx(k) == {i \in KernelIdx(k) : RawEvents[i].type = "ZONE_START"}
EndIdx(k) == {i \in KernelIdx(k) : RawEvents[i].type = "ZONE_END"}
RowKey(r) == <<r.pcie, r.core_x, r.core_y, r.risc_type, r.host_id>>
\* The rows of the per-run table that carry key k.
RowsOf(k) == {i \in 1..Len(processed_file.rows) : RowKey(processed_file.rows[i]) = k}
Transformed == transform_ret = "True"
WellPaired(k) == Cardinality(StartIdx(k)) = 1 /\ Cardinality(EndIdx(k)) = 1

\* C1: a group with exactly one TRISC-KERNEL ZONE_START and one ZONE_END has
\* the duration end.time_cycles - start.time_cycles, whatever else the group
\* holds; the value is not clamped, and it is negative exactly when the end
\* timestamp is smaller than the start timestamp.  The emitted row carries it.
C1_WellPairedDuration ==
    \A k \in RawKeys :
        WellPaired(k) =>
            \A s \in StartIdx(k), e \in EndIdx(k) :
                LET d == RawEvents[e].time_cycles - RawEvents[s].time_cycles
                IN /\ calculate_kernel_length(EventsOf(k)) = d
                   /\ (calculate_kernel_length(EventsOf(k)) < 0
                         <=> RawEvents[e].time_cycles < RawEvents[s].time_cycles)
                   /\ (Transformed /\ k \in GroupbyKeys) =>
                         /\ RowsOf(k) # {}
                         /\ \A i \in RowsOf(k) : processed_file.rows[i].KERNEL_LENGTH = d

\* C1 witness: a row with a negative duration was emitted for a group that
\* also holds an event of another zone.
C1_Witness ==
    /\ Transformed
    /\ \E k \in GroupbyKeys :
          /\ WellPaired(k)
          /\ Len(EventsOf(k)) > 2
          /\ \E i \in RowsOf(k) : processed_file.rows[i].KERNEL_LENGTH < 0

IllPaired(k) ==
    \/ Cardinality(StartIdx(k)) = 0 \/ Cardinality(StartIdx(k)) >= 2
    \/ Cardinality(EndIdx(k)) = 0 \/ Cardinality(EndIdx(k)) >= 2

\* C2: a group with 0 or >= 2 TRISC-KERNEL ZONE_START events, or 0 or >= 2
\* ZONE_END events, has duration 0 whatever its timestamps and other fields
\* are, and every such group handed to calculate_kernel_length (a group of
\* the groupby that holds a TRISC-KERNEL event) still has its row, with
\* KERNEL_LENGTH 0.
C2_IllPairedIsZero ==
    \A k \in RawKeys :
        IllPaired(k) =>
            /\ calculate_kernel_length(EventsOf(k)) = 0
            /\ (Transformed /\ k \in GroupbyKeys /\ KernelIdx(k) # {}) =>
                  /\ Cardinality(RowsOf(k)) = 1
                  /\ \A i \in RowsOf(k) : processed_file.rows[i].KERNEL_LENGTH = 0

\* C2 witness: a group with two starts at different times and one end has
\* its row, with KERNEL_LENGTH 0.
C2_Witness ==
    /\ Transformed
    /\ \E k \in GroupbyKeys :
          /\ Cardinality(StartIdx(k)) = 2
          /\ Cardinality(EndIdx(k)) = 1
          /\ \E s, t \in StartIdx(k) : RawEvents[s].time_cycles # RawEvents[t].time_cycles
          /\ \E i \in RowsOf(k) : processed_file.rows[i].KERNEL_LENGTH = 0

\* Independent reading of the metrics of one key: sums over positions.
RECURSIVE SumData(_)
SumData(I) == IF I = {} THEN 0
              ELSE LET i == CHOOSE j \in I : TRUE
                   IN RawEvents[i].data + SumData(I \ {i})
ZoneIdx(k, zone) == {i \in 1..Len(RawEvents) :
                       GroupKey(RawEvents[i]) = k /\ RawEvents[i].zone_name = zone}
CellOf(r, c) == IF c \in DOMAIN r THEN r[c] ELSE NaN
ExpectedCB(k, zone) ==
    IF ZoneIdx(k, zone) = {} THEN NaN ELSE Num(SumData(ZoneIdx(k, zone)))

\* C3: the per-run table has exactly one row for each key that has an event
\* with a risc_type containing TRISC and the zone TRISC-KERNEL, and no other
\* row; the metrics of a row are those of the events of its own key, so
\* events of other processors never change them.
C3_RowsAreTriscKernelKeys ==
    Transformed =>
        /\ {RowKey(processed_file.rows[i]) : i \in 1..Len(processed_file.rows)}
             = {k \in RawKeys : IsSubstring(TRISC, k[4]) /\ KernelIdx(k) # {}}
        /\ \A k \in RawKeys : Cardinality(RowsOf(k)) <= 1
        /\ \A i \in 1..Len(processed_file.rows) :
              LET r == processed_file.rows[i]
              IN /\ IsSubstring(TRISC, r.risc_type)
                 /\ r.KERNEL_LENGTH = calculate_kernel_length(EventsOf(RowKey(r)))
                 /\ CellOf(r, "CB_WAIT_FRONT")
                      = ExpectedCB(RowKey(r), "CB-COMPUTE-WAIT-FRONT")
                 /\ CellOf(r, "CB_RESERVE_BACK")
                      = ExpectedCB(RowKey(r), "CB-COMPUTE-RESERVE-BACK")

\* C3 witness: one row was emitted although the trace also holds a BRISC
\* TRISC-KERNEL event and a TRISC key without a TRISC-KERNEL event.
C3_Witness ==
    /\ Transformed
    /\ Len(processed_file.rows) = 1
    /\ \E k \in RawKeys : ~IsSubstring(TRISC, k[4]) /\ KernelIdx(k) # {}
    /\ \E k \in GroupbyKeys : KernelIdx(k) = {}

\* C4 as claimed: every emitted KERNEL_LENGTH is non-negative.
C4_Original ==
    Transformed =>
        \A i \in 1..Len(processed_file.rows) : processed_file.rows[i].KERNEL_LENGTH >= 0

\* C4 as amended: every emitted KERNEL_LENGTH is an integer, and it is
\* negative only for a group with exactly one TRISC-KERNEL ZONE_START and one
\* ZONE_END whose end timestamp is smaller than its start timestamp.
C4_NegativeOnlyWhenEndBeforeStart ==
    Transformed =>
        \A i \in 1..Len(processed_file.rows) :
            LET r == processed_file.rows[i]
                k == RowKey(r)
            IN /\ r.KERNEL_LENGTH \in Int
               /\ r.KERNEL_LENGTH < 0 =>
                     /\ WellPaired(k)
                     /\ \A s \in StartIdx(k), e \in EndIdx(k) :
                           RawEvents[e].time_cycles < RawEvents[s].time_cycles

\* C4 witness: a row with a negative KERNEL_LENGTH was emitted.
C4_Witness ==
    /\ Transformed
    /\ \E i \in 1..Len(processed_file.rows) : processed_file.rows[i].KERNEL_LENGTH = -500

(***************************************************************************)
(* Numbers.  A float is modelled by the rational it stands for, as a       *)
(* normalised pair <<numerator, denominator>> with a positive denominator; *)
(* a square root is kept as the rational under it.                         *)
(***************************************************************************)
Abs(x) == IF x < 0 THEN -x ELSE x

RECURSIVE GCD(_, _)
GCD(a, b) == IF b = 0 THEN a ELSE GCD(b, a % b)

Rat(n, d) ==
    LET g == GCD(Abs(n), Abs(d))
        sgn == IF d < 0 THEN -1 ELSE 1
    IN <<(sgn * n) \div g, (sgn * d) \div g>>

RatOfInt(x) == <<x, 1>>
RatAdd(a, b) == Rat(a[1] * b[2] + b[1] * a[2], a[2] * b[2])
RatSub(a, b) == Rat(a[1] * b[2] - b[1] * a[2], a[2] * b[2])
RatMul(a, b) == Rat(a[1] * b[1], a[2] * b[2])
\* a / b for b # 0
RatDiv(a, b) == Rat(a[1] * b[2], a[2] * b[1])
RatIsZero(a) == a[1] = 0

RECURSIVE RatSum(_)
RatSum(s) == IF s = <<>> THEN RatOfInt(0) ELSE RatAdd(Head(s), RatSum(Tail(s)))

\* The non-negative square root of the rational r.
Sqrt(r) == [null |-> FALSE, sqrt_of |-> r]

\* np.mean over one row of the matrix (a non-empty sample of integers).
np_mean(xs) == Rat(SeqSum(xs), Len(xs))

\* Mutant of np_std: the population standard deviation (ddof ignored).
np_std_population(xs, ddof) ==
    LET N == Len(xs)
        arrmean == Rat(SeqSum(xs), N)
        x == [i \in 1..N |-> RatSub(RatOfInt(xs[i]), arrmean)]
        sq == RatSum([i \in 1..N |-> RatMul(x[i], x[i])])
    IN Sqrt(RatDiv(sq, RatOfInt(N)))

\* np.std(..., ddof=ddof) over one row of the matrix: the squared deviations
\* from the mean are summed and divided by N - ddof; a divisor that is not
\* positive gives nan.
np_std(xs, ddof) ==
    LET N == Len(xs)
        arrmean == Rat(SeqSum(xs), N)
        x == [i \in 1..N |-> RatSub(RatOfInt(xs[i]), arrmean)]
        sq == RatSum([i \in 1..N |-> RatMul(x[i], x[i])])
        rcount == N - ddof
    IN IF rcount <= 0 THEN NaN ELSE Sqrt(RatDiv(sq, RatOfInt(rcount)))

(***************************************************************************)
(* analyze_statistics.py : StatisticsEngine                                *)
(***************************************************************************)

\* Most run directories of a category, and most rows of a table.
MaxRuns == 3
MaxRows == 2

identifier_cols == <<"run_id", "host_id", "pcie", "core_x", "core_y", "risc_type">>

\* A file that exists and that pd.read_csv cannot parse.
Unreadable == [exists |-> TRUE, readable |-> FALSE]

Table(columns, rows) ==
    [exists |-> TRUE, readable |-> TRUE, columns |-> columns, rows |-> rows]

IsTable(f) == f.exists /\ f.readable

\* The unified file of one run as unify.py writes it for a run directory with
\* one per-run table: row i is measurement point i, kls[i] its KERNEL_LENGTH.
UnifiedRunTable(kls) ==
    Table(identifier_cols \o <<"KERNEL_LENGTH">>,
          [i \in 1..Len(kls) |->
              [run_id |-> 1, host_id |-> 5, pcie |-> 0, core_x |-> i, core_y |-> 2,
               risc_type |-> TRISC_0, KERNEL_LENGTH |-> kls[i]]])

\* Kernel lengths the run tables are drawn from.
KernelLengths == {500, 520}

\* The unified file of a run whose per-run table had no KERNEL_LENGTH column:
\* n rows of identity columns.
IdentityRunTable(n) ==
    Table(identifier_cols,
          [i \in 1..n |->
              [run_id |-> 1, host_id |-> 5, pcie |-> 0, core_x |-> i, core_y |-> 2,
               risc_type |-> TRISC_0]])

\* What <category>.csv of one run directory may be.  The run tables of one
\* category share one schema: all carry KERNEL_LENGTH or none does.
UnifiedRunFiles(with_kernel) ==
    {NoFile, Unreadable}
    \cup (IF with_kernel
          THEN {UnifiedRunTable(kls) : kls \in SeqsUpTo(KernelLengths, MaxRows)}
          ELSE {IdentityRunTable(n) : n \in 0..MaxRows})

UnifiedDirs ==
    [category : SeqRange(categories),
     runs : SeqsUpTo(UnifiedRunFiles(TRUE), MaxRuns)
            \cup SeqsUpTo(UnifiedRunFiles(FALSE), MaxRuns)]

\* Mutant of run_dataframes: one run that cannot be loaded and nothing is.
run_dataframes_all_or_nothing(runs) ==
    IF \E r \in 1..Len(runs) : ~IsTable(runs[r]) THEN <<>> ELSE runs

\* Lines 26-40: the runs that load, in run_dirs order.
run_dataframes(runs) == SelectSeq(runs, IsTable)

HasColumns(df, cols) == \A c \in SeqRange(cols) : c \in SeqRange(df.columns)

\* Lines 59-80 for runs of equal row count: "raised" stands for the KeyError
\* of a column that line 60 or line 69 selects and the table does not have.
StatisticsOf(dfs) ==
    LET reference_df == dfs[1]
        num_rows == Len(reference_df.rows)
        with_kernel == "KERNEL_LENGTH" \in SeqRange(reference_df.columns)
        sample(i) == [r \in 1..Len(dfs) |-> dfs[r].rows[i].KERNEL_LENGTH]
    IN IF ~HasColumns(reference_df, identifier_cols) THEN [kind |-> "raised"]
       ELSE IF with_kernel /\ \E r \in 1..Len(dfs) : ~HasColumns(dfs[r], <<"KERNEL_LENGTH">>)
       THEN [kind |-> "raised"]
       ELSE [kind |-> "table",
             table |-> Table(
                 identifier_cols \o (IF with_kernel
                                     THEN <<"KERNEL_LENGTH_AVG", "KERNEL_LENGTH_STD">>
                                     ELSE <<>>),
                 [i \in 1..num_rows |->
                     [c \in SeqRange(identifier_cols) |-> reference_df.rows[i][c]]
                     @@ (IF with_kernel
                         THEN [KERNEL_LENGTH_AVG |-> np_mean(sample(i)),
                               KERNEL_LENGTH_STD |-> np_std(sample(i), 1)]
                         ELSE [c \in {} |-> 0])])]

\* Mutant of analyze_category: runs of unequal row count are analysed over
\* their common prefix instead of being refused.
analyze_category_common_prefix(runs) ==
    LET dfs == run_dataframes(runs)
        shortest == CHOOSE n \in {Len(dfs[r].rows) : r \in 1..Len(dfs)} :
                        \A r \in 1..Len(dfs) : n <= Len(dfs[r].rows)
    IN IF runs = <<>> THEN [kind |-> "None"]
       ELSE IF dfs = <<>> THEN [kind |-> "None"]
       ELSE StatisticsOf([r \in 1..Len(dfs) |->
                [dfs[r] EXCEPT !.rows = SubSeq(dfs[r].rows, 1, shortest)]])

\* analyze_category(category_path, category_name), as a function of the run
\* directories of the category.
analyze_category(runs) ==
    LET dfs == run_dataframes(runs)
    IN IF runs = <<>> THEN [kind |-> "None"]
       ELSE IF dfs = <<>> THEN [kind |-> "None"]
       ELSE IF \E r \in 1..Len(dfs) : Len(dfs[r].rows) # Len(dfs[1].rows)
       THEN [kind |-> "None"]
       ELSE StatisticsOf(dfs)

\* main, lines 131: the call of analyze_category for the category.
AnalyzeCategory ==
    /\ result_df.kind = "pending"
    /\ result_df' = analyze_category(unified_dir.runs)
    /\ UNCHANGED <<unified_dir, statistics_dir, stats_main_vars>>
    /\ UNCHANGED not_stats_vars

\* main, lines 133-135 with save_results: a result that is not None is saved
\* as <category>.csv.
save_results ==
    /\ result_df.kind = "table"
    /\ statistics_dir[unified_dir.category] = NoFile
    /\ statistics_dir' =
          [statistics_dir EXCEPT ![unified_dir.category] = result_df.table]
    /\ UNCHANGED <<unified_dir, result_df, stats_main_vars>>
    /\ UNCHANGED not_stats_vars

InitStats ==
    /\ unified_dir \in UnifiedDirs
    /\ result_df = [kind |-> "pending"]
    /\ statistics_dir = [c \in SeqRange(categories) |-> NoFile]
    /\ StatsMainIdle
    /\ ExtractIdle /\ UnifyIdle /\ PctIdle /\ CompareIdle

NextStats == AnalyzeCategory \/ save_results

SpecStats == InitStats /\ [][NextStats]_vars

(***************************************************************************)
(* Properties of the statistics stage (analyze_statistics.py)              *)
(***************************************************************************)

Analysed == result_df.kind \notin {"pending", "idle"}
\* The run directories whose file was loaded.
LoadedRuns == {r \in 1..Len(unified_dir.runs) : IsTable(unified_dir.runs[r])}
RowCount(r) == Len(unified_dir.runs[r].rows)
NoStatisticsSaved == \A c \in SeqRange(categories) : statistics_dir[c] = NoFile

\* C5: when all loaded run tables have the same row count R the result is a
\* statistics table with exactly R rows; when two of them differ the result
\* is None and no statistics file is saved.  A saved file is the whole
\* result, never a part of it.
C5_RowCountPrecondition ==
    /\ Analysed =>
          /\ (LoadedRuns # {} /\ \A a, b \in LoadedRuns : RowCount(a) = RowCount(b)) =>
                /\ result_df.kind = "table"
                /\ \A a \in LoadedRuns : Len(result_df.table.rows) = RowCount(a)
          /\ (\E a, b \in LoadedRuns : RowCount(a) # RowCount(b)) =>
                /\ result_df.kind = "None"
                /\ NoStatisticsSaved
    /\ \A c \in SeqRange(categories) :
          statistics_dir[c] # NoFile =>
              /\ c = unified_dir.category
              /\ result_df.kind = "table"
              /\ statistics_dir[c] = result_df.table

\* C5 witness: two loaded runs with different row counts were analysed and
\* gave no result.
C5_Witness ==
    /\ Analysed
    /\ \E a, b \in LoadedRuns : RowCount(a) = 1 /\ RowCount(b) = 2
    /\ result_df.kind = "None"

\* The KERNEL_LENGTH values of row position i over the loaded runs.
KernelLengthAt(r, i) == unified_dir.runs[r].rows[i].KERNEL_LENGTH
RECURSIVE SumKL(_, _)
SumKL(I, i) == IF I = {} THEN 0
               ELSE LET r == CHOOSE j \in I : TRUE
                    IN KernelLengthAt(r, i) + SumKL(I \ {r}, i)
RECURSIVE SumKLSq(_, _)
SumKLSq(I, i) == IF I = {} THEN 0
                 ELSE LET r == CHOOSE j \in I : TRUE
                      IN KernelLengthAt(r, i) * KernelLengthAt(r, i) + SumKLSq(I \ {r}, i)
SampleSum(i) == SumKL(LoadedRuns, i)
SampleSumSq(i) == SumKLSq(LoadedRuns, i)

\* C6: in row i of a result, KERNEL_LENGTH_AVG is the sum of the N runs'
\* values at position i divided by N, and KERNEL_LENGTH_STD is the square
\* root of the sum of squared deviations divided by N - 1, that is of
\* (N * sum(x^2) - sum(x)^2) / (N * (N - 1)); with N = 1 it is NaN, not 0.
\* Only the values at position i enter.  Runs 500 and 520 give 510 and the
\* square root of 200.
C6_MeanAndSampleStd ==
    (Analysed /\ result_df.kind = "table"
       /\ "KERNEL_LENGTH_AVG" \in SeqRange(result_df.table.columns)) =>
        LET N == Cardinality(LoadedRuns)
        IN \A i \in 1..Len(result_df.table.rows) :
            LET row == result_df.table.rows[i]
                avg == row.KERNEL_LENGTH_AVG
                std == row.KERNEL_LENGTH_STD
            IN /\ avg[2] > 0
               /\ avg[1] * N = avg[2] * SampleSum(i)
               /\ N = 1 => std = NaN
               /\ N >= 2 =>
                     /\ ~std.null
                     /\ std.sqrt_of[2] > 0
                     /\ std.sqrt_of[1] * N * (N - 1)
                          = std.sqrt_of[2] * (N * SampleSumSq(i) - SampleSum(i) * SampleSum(i))
               /\ (SampleSum(i) = 1020 /\ SampleSumSq(i) = 500 * 500 + 520 * 520) =>
                     avg = <<510, 1>> /\ std = Sqrt(<<200, 1>>)

\* C6 witness: two runs gave 500 and 520 at one position and equal values at
\* another; the statistics are 510 / sqrt(200) and a standard deviation of 0.
C6_Witness ==
    /\ Analysed /\ result_df.kind = "table"
    /\ "KERNEL_LENGTH_AVG" \in SeqRange(result_df.table.columns)
    /\ Cardinality(LoadedRuns) = 2
    /\ \E i, j \in 1..Len(result_df.table.rows) :
          /\ result_df.table.rows[i].KERNEL_LENGTH_AVG = <<510, 1>>
          /\ result_df.table.rows[i].KERNEL_LENGTH_STD = Sqrt(<<200, 1>>)
          /\ result_df.table.rows[j].KERNEL_LENGTH_STD = Sqrt(<<0, 1>>)

(***************************************************************************)
(* calculate_std_percentage.py : PercentageDerivation                      *)
(*                                                                         *)
(* The statistics file is a CSV: its cells are floats (rationals here) or  *)
(* empty (NaN).                                                            *)
(***************************************************************************)

\* A float cell holding n / d.
Float(n, d) == Num(Rat(n, d))

\* Float arithmetic: nan in, nan out.
FloatSub(a, b) == IF a.null \/ b.null THEN NaN ELSE Num(RatSub(a.v, b.v))
FloatMul(a, b) == IF a.null \/ b.null THEN NaN ELSE Num(RatMul(a.v, b.v))
\* a / b for a divisor that is not zero
FloatDiv(a, b) == IF a.null \/ b.null THEN NaN ELSE Num(RatDiv(a.v, b.v))
\* x != 0 and x == 0 of numpy: nan is neither equal to 0 ...
FloatIsZero(a) == ~a.null /\ RatIsZero(a.v)

RECURSIVE Pow10(_)
Pow10(k) == IF k = 0 THEN 1 ELSE 10 * Pow10(k - 1)

\* n / d (d > 0) rounded to the nearest integer, ties to the even one.
RoundHalfEven(n, d) ==
    LET q == n \div d
        r == n - q * d
    IN IF 2 * r < d THEN q
       ELSE IF 2 * r > d THEN q + 1
       ELSE IF q % 2 = 0 THEN q ELSE q + 1

\* Series.round(decimals) for one cell
round(a, decimals) ==
    IF a.null THEN NaN
    ELSE Float(RoundHalfEven(a.v[1] * Pow10(decimals), a.v[2]), Pow10(decimals))

\* Decimal digits KERNEL_LENGTH_STD_PCT is rounded to.
PctDecimals == 4

\* Mutant of std_percentage: a zero mean gives 0 instead of nan.
std_percentage_zero_for_zero_mean(avg, std) ==
    round(IF ~FloatIsZero(avg)
          THEN FloatMul(FloatDiv(std, avg), Float(100, 1))
          ELSE Float(0, 1),
          PctDecimals)

\* Lines 23-30 for one row: np.where(avg != 0, std / avg * 100, nan), rounded.
std_percentage(avg, std) ==
    round(IF ~FloatIsZero(avg)
          THEN FloatMul(FloatDiv(std, avg), Float(100, 1))
          ELSE NaN,
          PctDecimals)

required_cols == <<"KERNEL_LENGTH_AVG", "KERNEL_LENGTH_STD">>

\* One row of a statistics file: measurement point i with its two cells.
StatisticsRow(i, host, cells) ==
    [run_id |-> 1, host_id |-> host, pcie |-> 0, core_x |-> i, core_y |-> 2,
     risc_type |-> TRISC_0,
     KERNEL_LENGTH_AVG |-> cells[1], KERNEL_LENGTH_STD |-> cells[2]]

StatisticsTable(host, cells) ==
    Table(identifier_cols \o required_cols,
          [i \in 1..Len(cells) |-> StatisticsRow(i, host, cells[i])])

\* <<avg, std>> of a statistics row as analyze_category leaves them: one run
\* (std missing) of 0 or 500; equal runs of 0 or 500; the runs -10, 0, 10;
\* the runs 500, 510, 520.
PctCells ==
    {<<Float(0, 1), NaN>>, <<Float(500, 1), NaN>>,
     <<Float(0, 1), Float(0, 1)>>, <<Float(500, 1), Float(0, 1)>>,
     <<Float(0, 1), Float(10, 1)>>, <<Float(510, 1), Float(10, 1)>>}

\* The statistics file of a category whose reference run had no
\* KERNEL_LENGTH column (analyze_statistics.py:63): identity columns only.
IdentityOnlyTable ==
    Table(identifier_cols,
          <<[run_id |-> 1, host_id |-> 5, pcie |-> 0, core_x |-> 1, core_y |-> 2,
             risc_type |-> TRISC_0]>>)

StatisticsFiles ==
    {NoFile, IdentityOnlyTable}
    \cup {StatisticsTable(5, cells) : cells \in SeqsUpTo(PctCells, MaxRows)}

\* calculate_std_percentage(input_file, output_file): the frame it saves and
\* returns, or the ValueError of line 19.
calculate_std_percentage(df) ==
    IF ~HasColumns(df, required_cols) THEN [kind |-> "raised"]
    ELSE [kind |-> "table",
          table |-> Table(df.columns \o <<"KERNEL_LENGTH_STD_PCT">>,
              [i \in 1..Len(df.rows) |->
                  df.rows[i] @@
                  [KERNEL_LENGTH_STD_PCT |->
                      std_percentage(df.rows[i].KERNEL_LENGTH_AVG,
                                     df.rows[i].KERNEL_LENGTH_STD)]])]

\* process_all_statistics, lines 70-72: a category without a file is skipped.
SkipMissingStatistics ==
    /\ enhanced_file.kind = "pending"
    /\ ~statistics_file.file.exists
    /\ enhanced_file' = [kind |-> "skipped"]
    /\ UNCHANGED statistics_file
    /\ UNCHANGED not_pct_vars

\* process_all_statistics, lines 74-80: the call for a category with a file.
CalculateStdPercentage ==
    /\ enhanced_file.kind = "pending"
    /\ statistics_file.file.exists
    /\ enhanced_file' = calculate_std_percentage(statistics_file.file)
    /\ UNCHANGED statistics_file
    /\ UNCHANGED not_pct_vars

InitPct ==
    /\ statistics_file \in [category : SeqRange(categories), file : StatisticsFiles]
    /\ enhanced_file = [kind |-> "pending"]
    /\ ExtractIdle /\ UnifyIdle /\ StatsIdle /\ CompareIdle

NextPct == SkipMissingStatistics \/ CalculateStdPercentage

SpecPct == InitPct /\ [][NextPct]_vars

(***************************************************************************)
(* Properties of the percentage derivation                                 *)
(***************************************************************************)

\* C7 as claimed: KERNEL_LENGTH_STD_PCT is missing if and only if
\* KERNEL_LENGTH_AVG == 0, also for the rows of a single run.
C7_Original ==
    enhanced_file.kind = "table" =>
        \A i \in 1..Len(enhanced_file.table.rows) :
            LET row == enhanced_file.table.rows[i]
            IN row.KERNEL_LENGTH_STD_PCT.null <=> FloatIsZero(row.KERNEL_LENGTH_AVG)

\* C7 as amended: KERNEL_LENGTH_STD_PCT is missing if and only if
\* KERNEL_LENGTH_AVG == 0 or KERNEL_LENGTH_STD is itself missing (the rows of
\* a single run); a zero mean never gives 0; std = 0 with a non-zero mean
\* gives 0; avg 510 with std 10 gives 1.9608.
C7_MissingIffZeroMeanOrNoStd ==
    enhanced_file.kind = "table" =>
        /\ Len(enhanced_file.table.rows) = Len(statistics_file.file.rows)
        /\ \A i \in 1..Len(enhanced_file.table.rows) :
            LET row == enhanced_file.table.rows[i]
                avg == statistics_file.file.rows[i].KERNEL_LENGTH_AVG
                std == statistics_file.file.rows[i].KERNEL_LENGTH_STD
                pct == row.KERNEL_LENGTH_STD_PCT
            IN /\ pct.null <=> (avg.v[1] = 0 \/ std.null)
               /\ avg.v[1] = 0 => pct = NaN
               /\ (avg.v[1] # 0 /\ ~std.null /\ std.v[1] = 0) => pct = Float(0, 1)
               /\ (avg = Float(510, 1) /\ std = Float(10, 1)) => pct = Float(19608, 10000)

\* C7 witness: a single-run row (std missing) with a non-zero mean and a row
\* with a zero mean and a non-zero std both have a missing percentage.
C7_Witness ==
    /\ enhanced_file.kind = "table"
    /\ \E i, j \in 1..Len(enhanced_file.table.rows) :
          /\ enhanced_file.table.rows[i].KERNEL_LENGTH_AVG = Float(500, 1)
          /\ enhanced_file.table.rows[i].KERNEL_LENGTH_STD = NaN
          /\ enhanced_file.table.rows[i].KERNEL_LENGTH_STD_PCT = NaN
          /\ enhanced_file.table.rows[j].KERNEL_LENGTH_AVG = Float(0, 1)
          /\ enhanced_file.table.rows[j].KERNEL_LENGTH_STD = Float(10, 1)
          /\ enhanced_file.table.rows[j].KERNEL_LENGTH_STD_PCT = NaN

(***************************************************************************)
(* compare_implementations.py : ComparisonEngine                           *)
(***************************************************************************)

\* Mutant of calculate_percentage_slowdown: the difference is taken relative
\* to the comparison value.
calculate_percentage_slowdown_of_comparison(baseline_value, comparison_value) ==
    IF FloatIsZero(baseline_value) \/ FloatIsZero(comparison_value) THEN NaN
    ELSE FloatMul(FloatDiv(FloatSub(comparison_value, baseline_value), comparison_value),
                  Float(100, 1))

calculate_percentage_slowdown(baseline_value, comparison_value) ==
    IF FloatIsZero(baseline_value) THEN NaN
    ELSE FloatMul(FloatDiv(FloatSub(comparison_value, baseline_value), baseline_value),
                  Float(100, 1))

\* <<avg, std>> cells of the three statistics files.
BaselineCells ==
    {<<Float(100, 1), Float(10, 1)>>, <<Float(100, 1), Float(0, 1)>>,
     <<Float(100, 1), NaN>>, <<Float(0, 1), Float(0, 1)>>}
CounterCells ==
    {<<Float(120, 1), Float(20, 1)>>, <<Float(80, 1), Float(5, 1)>>,
     <<Float(100, 1), NaN>>}
ProfilerCells ==
    {<<Float(120, 1), Float(20, 1)>>, <<Float(80, 1), Float(5, 1)>>}

\* The statistics files main may find; the host_id tells the categories apart.
DataFiles ==
    [baseline : {NoFile, IdentityOnlyTable}
                \cup {StatisticsTable(5, cells) : cells \in SeqsUpTo(BaselineCells, MaxRows)},
     counter : {NoFile}
                \cup {StatisticsTable(6, cells) : cells \in SeqsUpTo(CounterCells, MaxRows)},
     profiler : {NoFile}
                \cup {StatisticsTable(7, cells) : cells \in SeqsUpTo(ProfilerCells, MaxRows)}]

\* load_statistics_data: None as soon as one of the three files is missing.
load_statistics_data(dir) ==
    IF \E i \in 1..Len(categories) : ~dir[categories[i]].exists
    THEN [kind |-> "None"]
    ELSE [kind |-> "data", data |-> dir]

\* Lines 49-87: n rows, row i from row i of each table.
ComparisonRows(baseline_df, counter_df, profiler_df, n) ==
    [i \in 1..n |->
        LET b == baseline_df.rows[i]
            c == counter_df.rows[i]
            p == profiler_df.rows[i]
        IN [col \in SeqRange(identifier_cols) |-> b[col]]
           @@ [BASELINE_MEAN |-> b.KERNEL_LENGTH_AVG,
               BASELINE_STD |-> b.KERNEL_LENGTH_STD,
               COUNTER_MEAN |-> c.KERNEL_LENGTH_AVG,
               COUNTER_STD |-> c.KERNEL_LENGTH_STD,
               COUNTER_MEAN_SLOWDOWN_PCT |->
                   calculate_percentage_slowdown(b.KERNEL_LENGTH_AVG, c.KERNEL_LENGTH_AVG),
               COUNTER_STD_CHANGE_PCT |->
                   calculate_percentage_slowdown(b.KERNEL_LENGTH_STD, c.KERNEL_LENGTH_STD),
               PROFILER_MEAN |-> p.KERNEL_LENGTH_AVG,
               PROFILER_STD |-> p.KERNEL_LENGTH_STD,
               PROFILER_MEAN_SLOWDOWN_PCT |->
                   calculate_percentage_slowdown(b.KERNEL_LENGTH_AVG, p.KERNEL_LENGTH_AVG),
               PROFILER_STD_CHANGE_PCT |->
                   calculate_percentage_slowdown(b.KERNEL_LENGTH_STD, p.KERNEL_LENGTH_STD)]]

comparison_columns ==
    identifier_cols \o
    <<"BASELINE_MEAN", "BASELINE_STD", "COUNTER_MEAN", "COUNTER_STD",
      "COUNTER_MEAN_SLOWDOWN_PCT", "COUNTER_STD_CHANGE_PCT",
      "PROFILER_MEAN", "PROFILER_STD",
      "PROFILER_MEAN_SLOWDOWN_PCT", "PROFILER_STD_CHANGE_PCT">>

\* Mutant of compare_implementations: tables of unequal length are compared
\* over their common prefix.
compare_implementations_common_prefix(d) ==
    LET baseline_df == d["baseline"]
        counter_df == d["counter"]
        profiler_df == d["profiler"]
        lens == {Len(baseline_df.rows), Len(counter_df.rows), Len(profiler_df.rows)}
        shortest == CHOOSE n \in lens : \A m \in lens : n <= m
    IN IF \E i \in 1..Len(categories) :
              ~HasColumns(d[categories[i]], identifier_cols \o required_cols)
       THEN [kind |-> "raised"]
       ELSE [kind |-> "table",
             table |-> Table(comparison_columns,
                             ComparisonRows(baseline_df, counter_df, profiler_df, shortest))]

\* compare_implementations(data); "raised" stands for the KeyError of a
\* column that lines 49-87 select and a table does not have.
compare_implementations(d) ==
    LET baseline_df == d["baseline"]
        counter_df == d["counter"]
        profiler_df == d["profiler"]
    IN IF Len(baseline_df.rows) # Len(counter_df.rows)
          \/ Len(baseline_df.rows) # Len(profiler_df.rows)
       THEN [kind |-> "None"]
       ELSE IF \E i \in 1..Len(categories) :
                   ~HasColumns(d[categories[i]], identifier_cols \o required_cols)
       THEN [kind |-> "raised"]
       ELSE [kind |-> "table",
             table |-> Table(comparison_columns,
                             ComparisonRows(baseline_df, counter_df, profiler_df,
                                            Len(baseline_df.rows)))]

\* Series.dropna() of one column, as the rationals it holds.
DropNa(df, col) ==
    LET present == SelectSeq(df.rows, LAMBDA r : ~r[col].null)
    IN [i \in 1..Len(present) |-> present[i][col].v]

RatLess(a, b) == a[1] * b[2] < b[1] * a[2]

RECURSIVE SortRats(_)
SortRats(xs) ==
    IF xs = <<>> THEN <<>>
    ELSE LET i == CHOOSE k \in 1..Len(xs) : \A j \in 1..Len(xs) : ~RatLess(xs[j], xs[k])
         IN <<xs[i]>> \o SortRats(SubSeq(xs, 1, i - 1) \o SubSeq(xs, i + 1, Len(xs)))

\* Series.mean(), Series.median() and Series.std() (ddof = 1)
SeriesMean(xs) ==
    IF xs = <<>> THEN NaN ELSE Num(RatDiv(RatSum(xs), RatOfInt(Len(xs))))
SeriesMedian(xs) ==
    LET sorted == SortRats(xs)
        n == Len(xs)
    IN IF n = 0 THEN NaN
       ELSE IF n % 2 = 1 THEN Num(sorted[(n + 1) \div 2])
       ELSE Num(RatDiv(RatAdd(sorted[n \div 2], sorted[n \div 2 + 1]), RatOfInt(2)))
SeriesStd(xs) ==
    LET n == Len(xs)
        m == RatDiv(RatSum(xs), RatOfInt(n))
        d == [i \in 1..n |-> RatSub(xs[i], m)]
    IN IF n < 2 THEN NaN
       ELSE Sqrt(RatDiv(RatSum([i \in 1..n |-> RatMul(d[i], d[i])]), RatOfInt(n - 1)))

\* The dict calculate_summary_statistics builds for one implementation from
\* its two percentage columns.
SummaryOf(df, mean_col, std_col) ==
    LET mean_slowdown == DropNa(df, mean_col)
        std_change == DropNa(df, std_col)
    IN [mean_slowdown_avg |-> SeriesMean(mean_slowdown),
        mean_slowdown_std |-> SeriesStd(mean_slowdown),
        mean_slowdown_median |-> SeriesMedian(mean_slowdown),
        std_change_avg |-> SeriesMean(std_change),
        std_change_std |-> SeriesStd(std_change),
        std_change_median |-> SeriesMedian(std_change),
        count |-> Len(mean_slowdown)]

calculate_summary_statistics(df) ==
    [counter |-> SummaryOf(df, "COUNTER_MEAN_SLOWDOWN_PCT", "COUNTER_STD_CHANGE_PCT"),
     profiler |-> SummaryOf(df, "PROFILER_MEAN_SLOWDOWN_PCT", "PROFILER_STD_CHANGE_PCT")]

\* str.upper() of the two implementation names
upper(impl) == IF impl = "counter" THEN "COUNTER" ELSE "PROFILER"

\* compare_implementations.py:134-181, the rows of the summary file: six for
\* counter, then six for profiler, each with the count of its implementation.
summary_data(summary_stats) ==
    LET rows_of(impl) ==
            LET stats == summary_stats[impl]
                row(metric, statistic, value) ==
                    [implementation |-> upper(impl), metric |-> metric,
                     statistic |-> statistic, value |-> value, count |-> stats.count]
            IN <<row("KERNEL_LENGTH_MEAN", "avg_slowdown_pct", stats.mean_slowdown_avg),
                 row("KERNEL_LENGTH_MEAN", "std_slowdown_pct", stats.mean_slowdown_std),
                 row("KERNEL_LENGTH_MEAN", "median_slowdown_pct", stats.mean_slowdown_median),
                 row("KERNEL_LENGTH_STD", "avg_change_pct", stats.std_change_avg),
                 row("KERNEL_LENGTH_STD", "std_change_pct", stats.std_change_std),
                 row("KERNEL_LENGTH_STD", "median_change_pct", stats.std_change_median)>>
    IN rows_of("counter") \o rows_of("profiler")

\* main, lines 223-232: the data is loaded and compared.  A missing file ends
\* main before the comparison ("load_failed").
CompareImplementations ==
    /\ comparison_df.kind = "pending"
    /\ LET loaded == load_statistics_data(data)
       IN comparison_df' = IF loaded.kind = "None" THEN [kind |-> "load_failed"]
                           ELSE compare_implementations(loaded.data)
    /\ UNCHANGED <<data, comparison_dir>>
    /\ UNCHANGED not_compare_vars

\* main, lines 234-238: the summary is computed and both files are saved.
save_comparison_results ==
    /\ comparison_df.kind = "table"
    /\ comparison_dir.detailed = NoFile
    /\ comparison_dir' =
          [detailed |-> comparison_df.table,
           summary |-> [exists |-> TRUE, readable |-> TRUE,
                        stats |-> calculate_summary_statistics(comparison_df.table),
                        rows |-> summary_data(
                                    calculate_summary_statistics(comparison_df.table))]]
    /\ UNCHANGED <<data, comparison_df>>
    /\ UNCHANGED not_compare_vars

InitCompare ==
    /\ data \in DataFiles
    /\ comparison_df = [kind |-> "pending"]
    /\ comparison_dir = [detailed |-> NoFile, summary |-> NoFile]
    /\ ExtractIdle /\ UnifyIdle /\ StatsIdle /\ PctIdle

NextCompare == CompareImplementations \/ save_comparison_results

SpecCompare == InitCompare /\ [][NextCompare]_vars

(***************************************************************************)
(* Properties of the comparison                                            *)
(***************************************************************************)

Compared == comparison_df.kind = "table"

\* The percentage pct is that of comparison value c against baseline b.
IsSlowdownOf(pct, b, c) ==
    /\ FloatIsZero(b) => pct = NaN
    /\ (b.null \/ c.null) => pct = NaN
    /\ (~b.null /\ ~c.null /\ ~FloatIsZero(b)) =>
          /\ ~pct.null
          \* pct * b = (c - b) * 100
          /\ pct.v[1] * b.v[1] * c.v[2] * b.v[2]
               = 100 * (c.v[1] * b.v[2] - b.v[1] * c.v[2]) * pct.v[2] * b.v[2]
          /\ (b.v[1] > 0 /\ RatLess(b.v, c.v)) => pct.v[1] > 0
          /\ (b.v[1] > 0 /\ RatLess(c.v, b.v)) => pct.v[1] < 0
    /\ (b = Float(100, 1) /\ c = Float(120, 1)) => pct = Float(20, 1)
    /\ (b = Float(100, 1) /\ c = Float(80, 1)) => pct = Float(-20, 1)

\* C8: in every comparison row and for counter and profiler, the
\* mean-slowdown percentage is ((C.avg - baseline.avg) / baseline.avg) * 100
\* and the std-change percentage the same over the std columns: positive for
\* a larger value over a positive baseline, negative for a smaller one
\* (100 -> 120 gives +20, 100 -> 80 gives -20), and missing when the baseline
\* value is 0.
C8_SlowdownPercentages ==
    Compared =>
        \A i \in 1..Len(comparison_df.table.rows) :
            LET row == comparison_df.table.rows[i]
                b == data["baseline"].rows[i]
                c == data["counter"].rows[i]
                p == data["profiler"].rows[i]
            IN /\ IsSlowdownOf(row.COUNTER_MEAN_SLOWDOWN_PCT,
                               b.KERNEL_LENGTH_AVG, c.KERNEL_LENGTH_AVG)
               /\ IsSlowdownOf(row.COUNTER_STD_CHANGE_PCT,
                               b.KERNEL_LENGTH_STD, c.KERNEL_LENGTH_STD)
               /\ IsSlowdownOf(row.PROFILER_MEAN_SLOWDOWN_PCT,
                               b.KERNEL_LENGTH_AVG, p.KERNEL_LENGTH_AVG)
               /\ IsSlowdownOf(row.PROFILER_STD_CHANGE_PCT,
                               b.KERNEL_LENGTH_STD, p.KERNEL_LENGTH_STD)

\* C8 witness: one row has +20 for the counter and -20 for the profiler, with
\* std changes of +100 and -50, and another row has a zero baseline and
\* missing percentages.
C8_Witness ==
    /\ Compared
    /\ \E i, j \in 1..Len(comparison_df.table.rows) :
          /\ comparison_df.table.rows[i].COUNTER_MEAN_SLOWDOWN_PCT = Float(20, 1)
          /\ comparison_df.table.rows[i].COUNTER_STD_CHANGE_PCT = Float(100, 1)
          /\ comparison_df.table.rows[i].PROFILER_MEAN_SLOWDOWN_PCT = Float(-20, 1)
          /\ comparison_df.table.rows[i].PROFILER_STD_CHANGE_PCT = Float(-50, 1)
          /\ comparison_df.table.rows[j].BASELINE_MEAN = Float(0, 1)
          /\ comparison_df.table.rows[j].COUNTER_MEAN_SLOWDOWN_PCT = NaN
          /\ comparison_df.table.rows[j].PROFILER_STD_CHANGE_PCT = NaN

AllLoaded == \A c \in SeqRange(categories) : data[c].exists
NothingSaved == comparison_dir.detailed = NoFile /\ comparison_dir.summary = NoFile

\* C9: there is a comparison result only when the three statistics tables
\* have the same row count; it then has that many rows, row i holding the
\* values of row i of each table and the identity columns of baseline row i.
\* With unequal row counts the result is None and neither the comparison nor
\* the summary file is written.
C9_EqualRowCounts ==
    /\ Compared =>
          /\ AllLoaded
          /\ Len(data["counter"].rows) = Len(data["baseline"].rows)
          /\ Len(data["profiler"].rows) = Len(data["baseline"].rows)
          /\ Len(comparison_df.table.rows) = Len(data["baseline"].rows)
          /\ \A i \in 1..Len(comparison_df.table.rows) :
                LET row == comparison_df.table.rows[i]
                IN /\ \A col \in SeqRange(identifier_cols) :
                         row[col] = data["baseline"].rows[i][col]
                   /\ row.BASELINE_MEAN = data["baseline"].rows[i].KERNEL_LENGTH_AVG
                   /\ row.BASELINE_STD = data["baseline"].rows[i].KERNEL_LENGTH_STD
                   /\ row.COUNTER_MEAN = data["counter"].rows[i].KERNEL_LENGTH_AVG
                   /\ row.COUNTER_STD = data["counter"].rows[i].KERNEL_LENGTH_STD
                   /\ row.PROFILER_MEAN = data["profiler"].rows[i].KERNEL_LENGTH_AVG
                   /\ row.PROFILER_STD = data["profiler"].rows[i].KERNEL_LENGTH_STD
    /\ (comparison_df.kind \notin {"pending", "idle"} /\ AllLoaded
          /\ \E c \in SeqRange(categories) :
                 Len(data[c].rows) # Len(data["baseline"].rows)) =>
          /\ comparison_df.kind = "None"
          /\ NothingSaved
    /\ ~NothingSaved =>
          /\ Compared
          /\ comparison_dir.detailed = comparison_df.table
          /\ comparison_dir.summary # NoFile

\* C9 witness: the profiler table alone is shorter than the other two; the
\* comparison gave None and nothing was saved.
C9_Witness ==
    /\ comparison_df.kind = "None"
    /\ AllLoaded
    /\ Len(data["baseline"].rows) = 2
    /\ Len(data["counter"].rows) = 2
    /\ Len(data["profiler"].rows) = 1
    /\ NothingSaved

(***************************************************************************)
(* unify.py: the per-run tables of one input directory joined into one     *)
(* table.  files is the directory tree: a set of entries, each the path of *)
(* a profile_log_device.csv and what that file holds.                      *)
(***************************************************************************)

DotLogs == <<".", "l", "o", "g", "s">>

\* The directories a profile_log_device.csv may lie in: "1" and "10", which
\* sort in this order, and a ".logs" directory.
RunPaths == {<<"1">>, <<"1", "0">>}

PerRunColumns == <<"pcie", "core_x", "core_y", "risc_type", "host_id", "KERNEL_LENGTH">>
NoHostColumns == <<"pcie", "core_x", "core_y", "risc_type", "KERNEL_LENGTH">>

\* Row i of a per-run table restricted to the table's columns.
PerRunRow(columns, i, kl) ==
    LET full == [pcie |-> 0, core_x |-> i, core_y |-> 2, risc_type |-> TRISC_0,
                 host_id |-> 5, KERNEL_LENGTH |-> kl, CB_WAIT_FRONT |-> Num(7)]
    IN [c \in SeqRange(columns) |-> full[c]]

\* A file pd.read_csv parses.  raw_format says that the file has at least
\* three lines and that its second line holds the text 'run host ID';
\* line3_host is then the token of its third line at that position.
PerRunTable(columns, kls, raw_format) ==
    [exists |-> TRUE, readable |-> TRUE, columns |-> columns,
     rows |-> [i \in 1..Len(kls) |-> PerRunRow(columns, i, kls[i])],
     raw_format |-> raw_format,
     line3_host |-> IF raw_format THEN "9" ELSE ""]

PerRunFiles ==
    {Unreadable}
    \cup {PerRunTable(PerRunColumns, kls, FALSE) :
              kls \in SeqsUpTo(KernelLengths, MaxRows)}
    \cup {PerRunTable(PerRunColumns \o <<"CB_WAIT_FRONT">>, kls, FALSE) :
              kls \in SeqsUpTo(KernelLengths, MaxRows)}
    \cup {PerRunTable(NoHostColumns, [i \in 1..n |-> 500], FALSE) : n \in 0..MaxRows}
    \cup {PerRunTable(NoHostColumns, [i \in 1..n |-> 500], TRUE) : n \in 2..MaxRows}

\* The directory trees join_files is run on.
InputDirs ==
    {{[path |-> p, file |-> tree[p]] : p \in DOMAIN tree} \cup logs :
        tree \in UNION {[P -> PerRunFiles] : P \in SUBSET RunPaths},
        logs \in {{}, {[path |-> DotLogs, file |-> PerRunTable(PerRunColumns, <<500>>, FALSE)]}}}

\* sorted(S) for a set of strings
sorted(S) ==
    CHOOSE s \in [1..Cardinality(S) -> S] :
        \A i, j \in 1..Cardinality(S) : i < j => StrLess(s[i], s[j])

\* The paths found, '.logs' paths filtered out, in sorted order.
find_profile_files(tree) ==
    sorted({e.path : e \in {x \in tree : ~IsSubstring(DotLogs, x.path)}})

FileAt(tree, path) == (CHOOSE e \in tree : e.path = path).file

extract_run_info(file_index) == ToString(file_index + 1)

\* The host id read from the file's text, or the KeyError of a table
\* without a host_id column.
extract_host_id_from_csv(f) ==
    IF f.raw_format THEN [raised |-> FALSE, host_id |-> f.line3_host]
    ELSE IF "host_id" \in SeqRange(f.columns) /\ Len(f.rows) >= 1
         THEN [raised |-> FALSE, host_id |-> ToString(f.rows[1].host_id)]
         ELSE [raised |-> TRUE]

\* unify.py:63-76, one pass of the loop up to all_dfs.append: the frame of
\* the file with run_id and, where it had none, host_id added; raised when
\* the pass leaves for the except clause before the append.  The read of
\* df['host_id'].iloc[0] that follows the append raises for a table of no
\* rows, which by then is in all_dfs.
read_run(f, file_index) ==
    IF ~f.readable THEN [raised |-> TRUE]
    ELSE LET run_id == extract_run_info(file_index)
             has_host == "host_id" \in SeqRange(f.columns)
             host == IF has_host THEN [raised |-> FALSE]
                     ELSE extract_host_id_from_csv(f)
             columns == f.columns \o <<"run_id">>
                        \o (IF has_host THEN <<>> ELSE <<"host_id">>)
         IN IF host.raised THEN [raised |-> TRUE]
            ELSE [raised |-> FALSE,
                  columns |-> columns,
                  rows |-> [i \in 1..Len(f.rows) |->
                              [c \in SeqRange(columns) |->
                                  IF c = "run_id" THEN run_id
                                  ELSE IF c \in DOMAIN f.rows[i] THEN f.rows[i][c]
                                  ELSE host.host_id]]]

\* all_dfs after the loop over the first n found paths
RECURSIVE all_dfs(_, _, _)
all_dfs(tree, paths, n) ==
    IF n = 0 THEN <<>>
    ELSE LET df == read_run(FileAt(tree, paths[n]), n - 1)
             before == all_dfs(tree, paths, n - 1)
         IN IF df.raised THEN before ELSE Append(before, df)

\* Columns of the concatenation: the union, in first-seen order (sort=False).
RECURSIVE concat_columns(_)
concat_columns(dfs) ==
    IF dfs = <<>> THEN <<>>
    ELSE LET n == Len(dfs)
         IN AppendNew(concat_columns(SubSeq(dfs, 1, n - 1)), dfs[n].columns)

RECURSIVE concat_rows(_, _)
concat_rows(dfs, columns) ==
    IF dfs = <<>> THEN <<>>
    ELSE LET n == Len(dfs)
         IN concat_rows(SubSeq(dfs, 1, n - 1), columns)
            \o [i \in 1..Len(dfs[n].rows) |->
                  [c \in SeqRange(columns) |->
                      IF c \in DOMAIN dfs[n].rows[i] THEN dfs[n].rows[i][c] ELSE NaN]]

\* Mutant of pd_concat: join='inner', only the columns every frame has.
pd_concat_inner(dfs) ==
    LET columns == SelectSeq(concat_columns(dfs),
                             LAMBDA c : \A k \in 1..Len(dfs) : c \in SeqRange(dfs[k].columns))
    IN [columns |-> columns,
        rows |-> [i \in 1..Len(concat_rows(dfs, concat_columns(dfs))) |->
                     [c \in SeqRange(columns) |->
                         concat_rows(dfs, concat_columns(dfs))[i][c]]]]

\* pd.concat(dfs, ignore_index=True, sort=False)
pd_concat(dfs) ==
    LET columns == concat_columns(dfs)
    IN [columns |-> columns, rows |-> concat_rows(dfs, columns)]

\* join_files: what it returns and the unified file it leaves.
join_files(tree) ==
    LET paths == find_profile_files(tree)
        dfs == all_dfs(tree, paths, Len(paths))
        combined_df == pd_concat(dfs)
        cols == combined_df.columns
        other_cols == SelectSeq(cols, LAMBDA c : c \notin SeqRange(identifier_cols))
        final_cols == SelectSeq(identifier_cols, LAMBDA c : c \in SeqRange(cols))
                      \o other_cols
    IN IF paths = <<>> THEN [ret |-> "False", file |-> NoFile]
       ELSE IF dfs = <<>> THEN [ret |-> "False", file |-> NoFile]
       ELSE [ret |-> "True",
             file |-> Table(final_cols,
                            [i \in 1..Len(combined_df.rows) |->
                                [c \in SeqRange(final_cols) |-> combined_df.rows[i][c]]])]

JoinFiles ==
    /\ join_ret = "pending"
    /\ join_ret' = join_files(files).ret
    /\ unified_file' = join_files(files).file
    /\ UNCHANGED <<files, unify_main_vars, not_unify_vars>>

InitUnify ==
    /\ files \in InputDirs
    /\ join_ret = "pending"
    /\ unified_file = NoFile
    /\ UnifyMainIdle
    /\ ExtractIdle /\ StatsIdle /\ PctIdle /\ CompareIdle

NextUnify == JoinFiles

SpecUnify == InitUnify /\ [][NextUnify]_vars

(***************************************************************************)
(* Properties of the join                                                  *)
(***************************************************************************)

Joined == join_ret \in {"True", "False"}

\* A per-run table join_files can read: the file parses and a host id can
\* be had for its rows.
ReadableRun(f) ==
    f.readable /\ ("host_id" \in SeqRange(f.columns) \/ f.raw_format)

ReadableRuns ==
    {e \in files : ~IsSubstring(DotLogs, e.path) /\ ReadableRun(e.file)}

RECURSIVE RowTotal(_)
RowTotal(S) ==
    IF S = {} THEN 0
    ELSE LET e == CHOOSE x \in S : TRUE
         IN Len(e.file.rows) + RowTotal(S \ {e})

\* Rows of the readable tables whose paths sort before that of e.
RowsBefore(e) == RowTotal({x \in ReadableRuns : StrLess(x.path, e.path)})

AddedColumns == {"run_id", "host_id"}

\* C10: the unified table of k readable per-run tables has the sum of their
\* row counts as its row count, and holds the rows of the first table (in
\* sorted path order) in their order, then those of the second, and so on,
\* each with the cells it had; its columns are all columns of all tables, a
\* column that a table lacks being null in that table's rows.
C10_ConcatenationKeepsRows ==
    (Joined /\ ReadableRuns # {}) =>
        /\ join_ret = "True"
        /\ IsTable(unified_file)
        /\ Len(unified_file.rows) = RowTotal(ReadableRuns)
        /\ SeqRange(unified_file.columns)
             = AddedColumns \cup UNION {SeqRange(e.file.columns) : e \in ReadableRuns}
        /\ \A e \in ReadableRuns : \A j \in 1..Len(e.file.rows) :
              LET u == unified_file.rows[RowsBefore(e) + j]
              IN /\ \A c \in SeqRange(e.file.columns) : u[c] = e.file.rows[j][c]
                 /\ \A c \in SeqRange(unified_file.columns) :
                       c \notin SeqRange(e.file.columns) \cup AddedColumns => u[c] = NaN

\* C10 witness: two readable tables were joined, the first without the
\* CB_WAIT_FRONT column the second has; the unified table has the rows of
\* both, the first table's with a null CB_WAIT_FRONT.
C10_Witness ==
    /\ join_ret = "True"
    /\ \E a, b \in ReadableRuns :
          /\ StrLess(a.path, b.path)
          /\ Len(a.file.rows) = 2 /\ Len(b.file.rows) = 1
          /\ "CB_WAIT_FRONT" \notin SeqRange(a.file.columns)
          /\ "CB_WAIT_FRONT" \in SeqRange(b.file.columns)
          /\ a.file.rows[1].KERNEL_LENGTH # a.file.rows[2].KERNEL_LENGTH
    /\ Len(unified_file.rows) = 3
    /\ unified_file.rows[1].CB_WAIT_FRONT = NaN
    /\ unified_file.rows[3].CB_WAIT_FRONT = Num(7)

(***************************************************************************)
(* unify.py main: join_files is called once for every run directory of a   *)
(* category, each call reading that run directory alone and writing        *)
(* <output>/<category>/<run>/<category>.csv.                               *)
(***************************************************************************)

\* Names of the entries of a category directory.
RunDirNames == {<<"0">>, <<"1">>}

\* What a profile_log_device.csv of a run directory may be.
RunFilePool ==
    {Unreadable}
    \cup {PerRunTable(PerRunColumns, [i \in 1..n |-> 500], FALSE) : n \in 1..MaxRows}

RunTrees ==
    {{[path |-> p, file |-> tree[p]] : p \in DOMAIN tree} :
        tree \in UNION {[P -> RunFilePool] : P \in SUBSET RunPaths}}

\* An entry of the category directory: a run directory and its tree, or
\* something that is not a directory.
RunEntries ==
    {[is_dir |-> FALSE, tree |-> {}]}
    \cup {[is_dir |-> TRUE, tree |-> t] : t \in RunTrees}

CategoryDirs == UNION {[D -> RunEntries] : D \in SUBSET RunDirNames}

\* unify.py:145-147, an entry that is not a directory is passed over.
SkipNonDirectory ==
    \E run \in runs_left :
        /\ ~run_dirs[run].is_dir
        /\ runs_left' = runs_left \ {run}
        /\ UNCHANGED <<files, join_ret, unified_file, run_dirs, unified_runs,
                       success_count, not_unify_vars>>

\* unify.py:149-159, one run directory joined.  iterdir() yields the entries
\* in no particular order.
JoinRun ==
    \E run \in runs_left :
        /\ run_dirs[run].is_dir
        /\ LET joined == join_files(run_dirs[run].tree)
           IN /\ unified_runs' = [unified_runs EXCEPT ![run] = joined.file]
              /\ success_count' = success_count + (IF joined.ret = "True" THEN 1 ELSE 0)
        /\ runs_left' = runs_left \ {run}
        /\ UNCHANGED <<files, join_ret, unified_file, run_dirs, not_unify_vars>>

InitUnifyMain ==
    /\ run_dirs \in CategoryDirs
    /\ runs_left = DOMAIN run_dirs
    /\ unified_runs = [run \in DOMAIN run_dirs |-> NoFile]
    /\ success_count = 0
    /\ files = {}
    /\ join_ret = "idle"
    /\ unified_file = NoFile
    /\ ExtractIdle /\ StatsIdle /\ PctIdle /\ CompareIdle

NextUnifyMain == SkipNonDirectory \/ JoinRun

SpecUnifyMain == InitUnifyMain /\ [][NextUnifyMain]_vars

(***************************************************************************)
(* Properties of the run identifiers                                       *)
(***************************************************************************)

\* The run directories of the category whose unified file was written.
UnifiedRuns == {run \in DOMAIN unified_runs : IsTable(unified_runs[run])}

\* 1-based ordinal of a run among the runs of the category.
RunOrdinal(run) ==
    1 + Cardinality({r \in DOMAIN run_dirs : run_dirs[r].is_dir /\ StrLess(r, run)})

\* C11: within one category every unified row carries the 1-based ordinal of
\* the run it came from as its run_id (stated for run directories that hold
\* one per-run table), so rows of two different runs never share a run_id.
C11_RunIdIdentifiesRun ==
    /\ \A run \in UnifiedRuns :
          Cardinality(run_dirs[run].tree) = 1 =>
              \A i \in 1..Len(unified_runs[run].rows) :
                  unified_runs[run].rows[i].run_id = ToString(RunOrdinal(run))
    /\ \A r1, r2 \in UnifiedRuns :
          r1 # r2 =>
              \A i \in 1..Len(unified_runs[r1].rows) :
                  \A j \in 1..Len(unified_runs[r2].rows) :
                      unified_runs[r1].rows[i].run_id # unified_runs[r2].rows[j].run_id

(***************************************************************************)
(* Properties of the column check of transform_profile_file                *)
(***************************************************************************)

\* The columns the extraction reads: the group key, time_cycles, data,
\* zone_name and type.
ColumnsRead ==
    {"pcie", "core_x", "core_y", "risc_type", "run_host_id",
     "time_cycles", "data", "zone_name", "type"}

\* The minimal schema: the shortest prefix of expected_columns that holds
\* every column the extraction reads.
MinimalColumnCount ==
    CHOOSE n \in 1..Len(expected_columns) :
        /\ ColumnsRead \subseteq SeqRange(Prefix(expected_columns, n))
        /\ \A m \in 1..(n - 1) :
              ~(ColumnsRead \subseteq SeqRange(Prefix(expected_columns, m)))

\* C12: transform_profile_file fails (returns False, writes no file) only for
\* a file with fewer columns than the minimal schema; a file that has the
\* minimal schema but lacks trailing columns, and a file with all 13 columns,
\* is accepted and its table written.
C12_AcceptsTrailingColumnsAbsent ==
    (transform_ret # "pending" /\ raw_file.ncols >= MinimalColumnCount) =>
        /\ transform_ret = "True"
        /\ processed_file # NoFile

(***************************************************************************)
(* analyze_statistics.py main: the loop over the three categories.  An     *)
(* exception that analyze_category raises is caught nowhere, so it ends    *)
(* the program before the categories that follow.                          *)
(***************************************************************************)

\* A unified run file without the run_id column.
NoRunIdTable(n) ==
    Table(<<"host_id", "pcie", "core_x", "core_y", "risc_type", "KERNEL_LENGTH">>,
          [i \in 1..n |->
              [host_id |-> 5, pcie |-> 0, core_x |-> i, core_y |-> 2,
               risc_type |-> TRISC_0, KERNEL_LENGTH |-> 500]])

\* What <unified>/<category> may be: absent, or a directory whose run
\* directories hold these files.
CategoryPaths ==
    {[exists |-> FALSE, runs |-> <<>>]}
    \cup {[exists |-> TRUE, runs |-> runs] :
            runs \in {<<>>,
                      <<UnifiedRunTable(<<500>>)>>,
                      <<UnifiedRunTable(<<500>>), UnifiedRunTable(<<520>>)>>,
                      <<UnifiedRunTable(<<500>>), UnifiedRunTable(<<500, 520>>)>>,
                      <<UnifiedRunTable(<<500>>), IdentityRunTable(1)>>,
                      <<NoRunIdTable(1)>>}}

\* analyze_statistics.py:127-129, a category whose directory is absent.
MainSkipCategory ==
    /\ main_state = "running"
    /\ next_category <= Len(categories)
    /\ ~unified_root[categories[next_category]].exists
    /\ next_category' = next_category + 1
    /\ UNCHANGED <<unified_root, main_state, statistics_dir, unified_dir, result_df,
                   not_stats_vars>>

\* analyze_statistics.py:131-135, a category analysed and, unless the result
\* is None, saved; an exception out of analyze_category ends main.
MainAnalyzeCategory ==
    /\ main_state = "running"
    /\ next_category <= Len(categories)
    /\ unified_root[categories[next_category]].exists
    /\ LET category == categories[next_category]
           result == analyze_category(unified_root[category].runs)
       IN /\ statistics_dir' =
                IF result.kind = "table"
                THEN [statistics_dir EXCEPT ![category] = result.table]
                ELSE statistics_dir
          /\ main_state' = IF result.kind = "raised" THEN "crashed" ELSE "running"
    /\ next_category' = next_category + 1
    /\ UNCHANGED <<unified_root, unified_dir, result_df, not_stats_vars>>

\* analyze_statistics.py:139, "Analysis complete!"
MainComplete ==
    /\ main_state = "running"
    /\ next_category > Len(categories)
    /\ main_state' = "complete"
    /\ UNCHANGED <<unified_root, next_category, statistics_dir, unified_dir, result_df,
                   not_stats_vars>>

InitStatsMain ==
    /\ unified_root \in [SeqRange(categories) -> CategoryPaths]
    /\ next_category = 1
    /\ main_state = "running"
    /\ statistics_dir = [c \in SeqRange(categories) |-> NoFile]
    /\ unified_dir = [category |-> "idle", runs |-> <<>>]
    /\ result_df = [kind |-> "idle"]
    /\ ExtractIdle /\ UnifyIdle /\ PctIdle /\ CompareIdle

NextStatsMain == MainSkipCategory \/ MainAnalyzeCategory \/ MainComplete

SpecStatsMain == InitStatsMain /\ [][NextStatsMain]_vars

(***************************************************************************)
(* Properties of the statistics main loop                                  *)
(***************************************************************************)

MainEnded == main_state \in {"complete", "crashed"}

\* The run tables of category c that load differ in row count.
UnequalRowCounts(c) ==
    /\ unified_root[c].exists
    /\ LET dfs == run_dataframes(unified_root[c].runs)
       IN \E r1, r2 \in 1..Len(dfs) : Len(dfs[r1].rows) # Len(dfs[r2].rows)

\* The statistics file category c has when it is analysed alone.
AnalysedAlone(c) ==
    IF ~unified_root[c].exists THEN NoFile
    ELSE LET result == analyze_category(unified_root[c].runs)
         IN IF result.kind = "table" THEN result.table ELSE NoFile

\* C13: when main has ended and a category's run tables have unequal row
\* counts, that category has no statistics file and every other category
\* has the statistics file it has when analysed alone.
C13_OtherCategoriesProceed ==
    MainEnded =>
        \A c \in SeqRange(categories) :
            UnequalRowCounts(c) =>
                /\ statistics_dir[c] = NoFile
                /\ \A d \in SeqRange(categories) \ {c} :
                      statistics_dir[d] = AnalysedAlone(d)

\* C18: the statistics stage never halts as a whole: whatever the run tables
\* hold, main does not die on a category, and when it has ended it is in its
\* 'Analysis complete' state with every category attempted, each having the
\* statistics file it has when analysed alone.
C18_MainNeverHalts ==
    /\ main_state # "crashed"
    /\ MainEnded =>
          /\ main_state = "complete"
          /\ next_category > Len(categories)
          /\ \A c \in SeqRange(categories) : statistics_dir[c] = AnalysedAlone(c)

(***************************************************************************)
(* process.py transform_directory: the loop over the raw traces found.     *)
(***************************************************************************)

MaxRawFiles == 3

\* The raw traces of a directory: of 12, 13 or 14 columns, without events or
\* with one well-paired TRISC_0 group.
RawDirFiles ==
    [ncols : RawColumnCounts,
     events : {<<>>,
               <<Event(1, TRISC_0, "TRISC-KERNEL", "ZONE_START", 1000, 0),
                 Event(1, TRISC_0, "TRISC-KERNEL", "ZONE_END", 1500, 0)>>}]

\* transform_profile_file as a function of the file it is given: what it
\* returns and the output file it leaves.
transform_profile_file_of(f) ==
    IF f.ncols >= Len(expected_columns)
       /\ Len(Prefix(expected_columns, f.ncols)) = f.ncols
    THEN [ret |-> "True", file |-> KernelMetricTable(f.events)]
    ELSE [ret |-> "False", file |-> NoFile]

\* Mutant of count_success: every file is counted.
count_every_file(count, ret) == count + 1

\* process.py:128-129
count_success(count, ret) == IF ret = "True" THEN count + 1 ELSE count

\* process.py:124-129, one pass of the loop
TransformNextFile ==
    /\ next_file >= 1
    /\ next_file <= Len(raw_dir)
    /\ LET out == transform_profile_file_of(raw_dir[next_file])
       IN /\ processed_dir' = [processed_dir EXCEPT ![next_file] = out.file]
          /\ transformed_count' = count_success(transformed_count, out.ret)
    /\ next_file' = next_file + 1
    /\ UNCHANGED <<raw_dir, raw_file, transform_ret, processed_file, not_extract_vars>>

InitExtractDir ==
    /\ raw_dir \in SeqsUpTo(RawDirFiles, MaxRawFiles)
    /\ next_file = 1
    /\ processed_dir = [i \in 1..Len(raw_dir) |-> NoFile]
    /\ transformed_count = 0
    /\ raw_file = [ncols |-> 0, events |-> <<>>]
    /\ transform_ret = "idle"
    /\ processed_file = NoFile
    /\ UnifyIdle /\ StatsIdle /\ PctIdle /\ CompareIdle

NextExtractDir == TransformNextFile

SpecExtractDir == InitExtractDir /\ [][NextExtractDir]_vars

(***************************************************************************)
(* Properties of transform_directory                                       *)
(***************************************************************************)

\* The files transform_profile_file accepts: those of exactly 13 columns.
Accepted(f) == f.ncols = Len(expected_columns)

\* The positions the loop has passed.
Passed == 1..(next_file - 1)

\* C14: the loop passes the files in order whatever became of the earlier
\* ones: every file passed has its output file if it was accepted and none
\* if it was rejected, no file is left out or visited early, and the success
\* count is the number of accepted files among those passed.
C14_LoopSurvivesRejection ==
    /\ next_file \in 1..(Len(raw_dir) + 1)
    /\ \A i \in Passed :
          /\ Accepted(raw_dir[i]) => processed_dir[i] = KernelMetricTable(raw_dir[i].events)
          /\ ~Accepted(raw_dir[i]) => processed_dir[i] = NoFile
    /\ \A i \in 1..Len(raw_dir) : i \notin Passed => processed_dir[i] = NoFile
    /\ transformed_count = Cardinality({i \in Passed : Accepted(raw_dir[i])})

\* C14 witness: the loop is over three files; the first was rejected for
\* too few columns and the second for the error of a 14-column file, the
\* third file was transformed and the count is 1.
C14_Witness ==
    /\ Len(raw_dir) = 3
    /\ next_file = 4
    /\ raw_dir[1].ncols = 12 /\ processed_dir[1] = NoFile
    /\ raw_dir[2].ncols = 14 /\ processed_dir[2] = NoFile
    /\ raw_dir[3].ncols = 13 /\ raw_dir[3].events # <<>>
    /\ processed_dir[3] # NoFile /\ Len(processed_dir[3].rows) = 1
    /\ transformed_count = 1

(***************************************************************************)
(* Properties of the loading of the runs (analyze_category)                *)
(***************************************************************************)

\* The run directories whose file is absent or cannot be read.
SkippedRuns == {r \in 1..Len(unified_dir.runs) : ~IsTable(unified_dir.runs[r])}

\* C15: a run whose file is absent or unreadable is skipped and the others
\* are still used: there is no result only when no run was loaded or the
\* loaded runs differ in row count (a skipped run counts for no rows), and
\* the mean and the standard deviation of a result are those of the loaded
\* runs alone, with the number of loaded runs as the sample size.
C15_SkippedRunsAreNotFatal ==
    Analysed =>
        LET N == Cardinality(LoadedRuns)
        IN /\ N = 0 => result_df.kind = "None"
           /\ (N > 0 /\ \A a, b \in LoadedRuns : RowCount(a) = RowCount(b)) =>
                 /\ result_df.kind = "table"
                 /\ \A a \in LoadedRuns : Len(result_df.table.rows) = RowCount(a)
                 /\ "KERNEL_LENGTH_AVG" \in SeqRange(result_df.table.columns) =>
                       \A i \in 1..Len(result_df.table.rows) :
                           LET row == result_df.table.rows[i]
                           IN /\ row.KERNEL_LENGTH_AVG = Rat(SampleSum(i), N)
                              /\ (N = 1) = (row.KERNEL_LENGTH_STD = NaN)
                              /\ N >= 2 =>
                                    row.KERNEL_LENGTH_STD
                                      = Sqrt(Rat(N * SampleSumSq(i) - SampleSum(i) * SampleSum(i),
                                                 N * (N - 1)))
           /\ result_df.kind = "None" =>
                 \/ N = 0
                 \/ \E a, b \in LoadedRuns : RowCount(a) # RowCount(b)

\* C15 witness: of three runs the middle one was skipped; the result is the
\* table of the two loaded runs, 500 and 520 giving 510 and the square root
\* of 200.
C15_Witness ==
    /\ Analysed
    /\ Len(unified_dir.runs) = 3
    /\ SkippedRuns = {2}
    /\ result_df.kind = "table"
    /\ Len(result_df.table.rows) = 1
    /\ result_df.table.rows[1].KERNEL_LENGTH_AVG = <<510, 1>>
    /\ result_df.table.rows[1].KERNEL_LENGTH_STD = Sqrt(<<200, 1>>)

(***************************************************************************)
(* Properties of the CB metrics                                            *)
(***************************************************************************)

\* The metric columns and the zones they sum.
MetricZone ==
    [CB_WAIT_FRONT |-> "CB-COMPUTE-WAIT-FRONT",
     CB_RESERVE_BACK |-> "CB-COMPUTE-RESERVE-BACK"]

\* C16: in every emitted row each CB metric is the sum of data over the
\* events of the row's group that carry the metric's zone; when the group
\* has no such event the metric is null in that row (or its column is not in
\* the table at all), never 0, also when other rows have the metric, while
\* events that sum to 0 give the value 0, which is not null.
C16_AbsentMetricIsNotZero ==
    Transformed =>
        \A i \in 1..Len(processed_file.rows) : \A c \in DOMAIN MetricZone :
            LET r == processed_file.rows[i]
                idx == ZoneIdx(RowKey(r), MetricZone[c])
            IN /\ idx = {} => (c \in DOMAIN r => r[c] = NaN)
               /\ idx # {} =>
                     /\ c \in SeqRange(processed_file.columns)
                     /\ ~r[c].null
                     /\ r[c].v = SumData(idx)
               /\ (c \in DOMAIN r /\ r[c] = Num(0)) =>
                     /\ idx # {}
                     /\ \A j \in idx : RawEvents[j].data = 0

\* C16 witness: of two rows one has CB_WAIT_FRONT 0, from an event whose
\* data is 0, and the other, whose group has no such event, has it null.
C16_Witness ==
    /\ Transformed
    /\ Len(processed_file.rows) = 2
    /\ "CB_WAIT_FRONT" \in SeqRange(processed_file.columns)
    /\ processed_file.rows[1].CB_WAIT_FRONT = Num(0)
    /\ processed_file.rows[2].CB_WAIT_FRONT = NaN
    /\ ZoneIdx(RowKey(processed_file.rows[2]), "CB-COMPUTE-WAIT-FRONT") = {}

(***************************************************************************)
(* Properties of the summary                                               *)
(***************************************************************************)

\* The percentage column of the comparison that a summary row aggregates.
AggregatedColumn(row) ==
    IF row.implementation = "COUNTER"
    THEN (IF row.metric = "KERNEL_LENGTH_MEAN"
          THEN "COUNTER_MEAN_SLOWDOWN_PCT" ELSE "COUNTER_STD_CHANGE_PCT")
    ELSE (IF row.metric = "KERNEL_LENGTH_MEAN"
          THEN "PROFILER_MEAN_SLOWDOWN_PCT" ELSE "PROFILER_STD_CHANGE_PCT")

\* Number of rows of the comparison whose cell of column col is not missing.
NonMissing(col) ==
    Cardinality({i \in 1..Len(comparison_df.table.rows) :
                    ~comparison_df.table.rows[i][col].null})

\* C17: every row of the summary carries, next to its aggregate, the number
\* of non-missing values of the percentage column that the aggregate is
\* computed over, for the std-change column as for the mean-slowdown column.
C17_CountIsOfSameColumn ==
    comparison_dir.summary # NoFile =>
        \A i \in 1..Len(comparison_dir.summary.rows) :
            LET row == comparison_dir.summary.rows[i]
            IN row.count = NonMissing(AggregatedColumn(row))

====
